---- MODULE Spec2Model ----
(***************************************************************************)
(* State-machine model of the log_hz! macro of src/src/lib.rs: the        *)
(* per-call-site, lock-free rate gate made of the statics START_TIME,     *)
(* INTERVAL_NS and LAST_LOG_NS, executed by several threads.              *)
(*                                                                         *)
(* Every statement of the macro body that touches shared state or the     *)
(* clock is one action: the Relaxed load (line 164), Instant::now (165),  *)
(* the deref of START_TIME (166), the deref of INTERVAL_NS with the       *)
(* interval check (170), compare_exchange (185) and log! (187).  Each of  *)
(* the two LazyLocks is forced on its own: a thread enters the closure in *)
(* one step and leaves it in another, and a thread that dereferences a    *)
(* LazyLock whose closure another thread is running waits.  Time is       *)
(* counted in nanoseconds.  A Relaxed load that returns an older value of *)
(* LAST_LOG_NS is the same load taken earlier, an interleaving the model  *)
(* has, since the load and the clock reading are separate steps.          *)
(***************************************************************************)
EXTENDS Integers, Sequences, FiniteSets, TLC

(* ---------------------------- bounds ----------------------------------- *)
NumThreads == 2
MaxCalls   == 3
MaxClock   == 2
MaxSkew    == 1
MaxRate    == 7

(* ------------------------ program constants ---------------------------- *)
\* 1_000_000_000.0 of line 147
NS_PER_SEC == 1000000000
\* u64::MAX of line 149.  TLC integers are 32 bits wide, so the model uses
\* the largest of them; every elapsed value of the model is far below it, as
\* every elapsed value of a process younger than 584 years is below 2^64-1.
U64_MAX == 2147483647

Threads  == 1..NumThreads
AllSites == {1, 2}
None     == -1

\* Rates in Hz the call sites are expanded with.  The positive ones give
\* intervals of 2, 1 and 0 ns, so that a clock of a few ns crosses them.
Rates == {0, 500000000, 1000000000, 2000000000}

\* Small integer rates of either sign, and the rate whose interval is 1 ns.
\* 1e9 / 3 has a fractional part below 1/2, 1e9 / 6 and 1e9 / 7 have one
\* above 1/2.
IntegerRates == ((-MaxRate)..MaxRate) \cup {NS_PER_SEC}

\* log::Level
Level == [Error |-> 1, Warn |-> 2, Info |-> 3, Debug |-> 4, Trace |-> 5]

Entries == {"error_hz", "warn_hz", "info_hz", "debug_hz", "trace_hz"}

\* The level each entry point hands to log_hz! (lines 88-116).
LevelOf(e) ==
  CASE e = "error_hz" -> Level.Error
    [] e = "warn_hz"  -> Level.Warn
    [] e = "info_hz"  -> Level.Info
    [] e = "debug_hz" -> Level.Debug
    [] e = "trace_hz" -> Level.Trace

\* The cast without the test of line 146: 1.0 / 0.0 is +inf and casts to
\* u64::MAX, a negative quotient casts to 0.
unguarded_interval(r) ==
  IF r > 0 THEN NS_PER_SEC \div r ELSE IF r = 0 THEN U64_MAX ELSE 0

\* An interval rounded to the nearest nanosecond.
rounded_interval(r) ==
  IF r > 0
    THEN (NS_PER_SEC \div r) + (IF 2 * (NS_PER_SEC % r) >= r THEN 1 ELSE 0)
    ELSE U64_MAX

\* The closure of INTERVAL_NS (lines 144-151): (1.0 / rate * 1e9) as u64
\* truncates toward zero; for the integer rates used here the f64 product
\* truncates to the integer quotient.
IntervalOf(r) == IF r > 0 THEN NS_PER_SEC \div r ELSE U64_MAX

\* A subtraction that wraps around at the width of the integer.
wrapping_sub(a, b) == IF a >= b THEN a - b ELSE U64_MAX - (b - a) + 1

\* u64::abs_diff in the place of saturating_sub.
abs_diff(a, b) == IF a >= b THEN a - b ELSE b - a

\* u64::saturating_sub, and Instant::duration_since, which saturates to zero
\* when the argument is the later instant.
saturating_sub(a, b) == IF a >= b THEN a - b ELSE 0

duration_since(n, start) == saturating_sub(n, start)

\* A cell that is initialized again on every access.
force_always(cell, init) == init

\* LazyLock::force, the deref of lines 166 and 170: the first access stores
\* the value of the closure, every later one returns the stored value.
force(cell, init) == IF cell = None THEN init ELSE cell

\* A check that lets every call through to the compare_exchange.
interval_ignored(e, l, iv) == TRUE

\* A check that asks for more than the interval.
interval_exceeded(e, l, iv) == saturating_sub(e, l) > iv

\* A check with the operands of the subtraction swapped.
operands_swapped(e, l, iv) == saturating_sub(l, e) >= iv

\* A check that is off by one nanosecond.
interval_passed_early(e, l, iv) == saturating_sub(e, l) >= iv - 1

\* A check that compares the elapsed time with the interval and forgets the
\* last admission.
IntervalPassedSinceStart(e, l, iv) == e >= iv

\* The fast-path condition of line 170.
IntervalPassed(e, l, iv) == saturating_sub(e, l) >= iv

VARIABLES
  clock,        \* the monotonic clock, in ns
  skew,         \* skew[t]: how far thread t's clock readings run ahead
  sites,        \* the call sites of the program
  rate,         \* rate[s]: the $rate the site was expanded with
  entry,        \* entry[s]: the macro the site was expanded from
  START_TIME,   \* START_TIME[s]: LazyLock<Instant>, None until forced
  INTERVAL_NS,  \* INTERVAL_NS[s]: LazyLock<u64>, None until forced
  LAST_LOG_NS,  \* LAST_LOG_NS[s]: AtomicU64
  pc,           \* pc[t]: the statement thread t executes next
  at,           \* at[t]: the call site thread t is executing
  last_ns,      \* the locals of the macro body, per thread
  now,
  elapsed_ns,
  seq,          \* seq[t]: position of t's current call in hist
  hist,         \* the calls made so far, in the order they started
  lastCasAt,    \* lastCasAt[s]: the clock at the last successful
                \* compare_exchange at site s, None before the first
  sink          \* what the logger received, in order

vars == <<clock, skew, sites, rate, entry, START_TIME, INTERVAL_NS, LAST_LOG_NS,
          pc, at, last_ns, now, elapsed_ns, seq, hist, lastCasAt, sink>>

gate   == <<START_TIME, INTERVAL_NS, LAST_LOG_NS>>
config == <<skew, sites, rate, entry>>
locals == <<last_ns, now, elapsed_ns>>

\* Instant::now() as thread t obtains it.
Reading(t) == clock + skew[t]

\* The calls made at site s, and those whose compare_exchange succeeded.
CallsAt(s) == {i \in 1..Len(hist) : hist[i].site = s}

Admitted == {i \in 1..Len(hist) : hist[i].won}

AdmittedAt(s) == CallsAt(s) \cap Admitted

InitCommon ==
  /\ clock = 0
  /\ START_TIME  = [s \in AllSites |-> None]
  /\ INTERVAL_NS = [s \in AllSites |-> None]
  /\ LAST_LOG_NS = [s \in AllSites |-> 0]
  /\ pc = [t \in Threads |-> "idle"]
  /\ at = [t \in Threads |-> 1]
  /\ last_ns = [t \in Threads |-> 0]
  /\ now = [t \in Threads |-> 0]
  /\ elapsed_ns = [t \in Threads |-> 0]
  /\ seq = [t \in Threads |-> 0]
  /\ hist = <<>>
  /\ lastCasAt = [s \in AllSites |-> None]
  /\ sink = <<>>

\* One call site expanded from info_hz!, as in the tests of lib.rs, with any
\* rate, and a clock that never goes backward.
Init ==
  /\ InitCommon
  /\ skew = [t \in Threads |-> 0]
  /\ sites = {1}
  /\ \E r \in Rates : rate = [s \in AllSites |-> r]
  /\ entry = [s \in AllSites |-> "info_hz"]

\* Threads are numbered in the order of their first call.
Arrived(t) == t = 1 \/ \E i \in 1..Len(hist) : hist[i].thread = t - 1

\* Line 164: the thread reaches the call site and loads LAST_LOG_NS.
Load(t, s) ==
  /\ pc[t] = "idle"
  /\ Arrived(t)
  /\ s \in sites
  /\ Len(hist) < MaxCalls
  /\ hist' = Append(hist, [site |-> s, thread |-> t, last_ns |-> 0, now |-> 0,
                           elapsed_ns |-> 0, result |-> "running",
                           won |-> FALSE,
                           gen |-> Cardinality(AdmittedAt(s))])
  /\ seq' = [seq EXCEPT ![t] = Len(hist) + 1]
  /\ at' = [at EXCEPT ![t] = s]
  /\ last_ns' = [last_ns EXCEPT ![t] = LAST_LOG_NS[s]]
  /\ pc' = [pc EXCEPT ![t] = "now"]
  /\ UNCHANGED <<clock, config, gate, now, elapsed_ns, lastCasAt, sink>>

\* Line 165: let now = Instant::now().
ReadNow(t) ==
  /\ pc[t] = "now"
  /\ now' = [now EXCEPT ![t] = Reading(t)]
  /\ pc' = [pc EXCEPT ![t] = "start"]
  /\ UNCHANGED <<clock, config, gate, at, last_ns, elapsed_ns, seq, hist,
                 lastCasAt, sink>>

\* The thread leaves the macro body: the outcome of the call goes to hist and
\* the locals go out of scope.
Return(t, e, res) ==
  /\ hist' = [hist EXCEPT ![seq[t]] =
                [@ EXCEPT !.last_ns = last_ns[t], !.now = now[t],
                          !.elapsed_ns = e, !.result = res]]
  /\ pc' = [pc EXCEPT ![t] = "idle"]
  /\ last_ns' = [last_ns EXCEPT ![t] = 0]
  /\ now' = [now EXCEPT ![t] = 0]
  /\ elapsed_ns' = [elapsed_ns EXCEPT ![t] = 0]
  /\ seq' = [seq EXCEPT ![t] = 0]

\* A thread is inside the closure of START_TIME of site s: std's Once makes
\* every other thread that dereferences the LazyLock wait until it is out.
StartRunning(s) == \E u \in Threads : pc[u] = "start_init" /\ at[u] = s

\* A thread is inside the closure of INTERVAL_NS of site s.
IntervalRunning(s) == \E u \in Threads : pc[u] = "interval_init" /\ at[u] = s

\* Line 166, *START_TIME on an empty LazyLock that no thread is forcing:
\* the thread enters the closure of line 140.
EnterStart(t) ==
  /\ pc[t] = "start"
  /\ START_TIME[at[t]] = None
  /\ ~StartRunning(at[t])
  /\ pc' = [pc EXCEPT ![t] = "start_init"]
  /\ UNCHANGED <<clock, config, gate, at, locals, seq, hist, lastCasAt, sink>>

\* Line 166: now.duration_since(*START_TIME).as_nanos() as u64.  The thread
\* comes here out of the closure (Instant::now of line 140 is the value of
\* the LazyLock), or finds the LazyLock forced; while another thread is in
\* the closure it waits.
Elapsed(t) ==
  /\ \/ pc[t] = "start_init"
     \/ pc[t] = "start" /\ START_TIME[at[t]] # None
  /\ LET s     == at[t]
         start == force(START_TIME[s], Reading(t))
     IN  /\ START_TIME' = [START_TIME EXCEPT ![s] = start]
         /\ elapsed_ns' = [elapsed_ns EXCEPT ![t] = duration_since(now[t], start)]
  /\ pc' = [pc EXCEPT ![t] = "check"]
  /\ UNCHANGED <<clock, config, INTERVAL_NS, LAST_LOG_NS, at, last_ns, now,
                 seq, hist, lastCasAt, sink>>

\* Line 170, *INTERVAL_NS on an empty LazyLock that no thread is forcing:
\* the thread enters the closure of lines 144-151.
EnterInterval(t) ==
  /\ pc[t] = "check"
  /\ INTERVAL_NS[at[t]] = None
  /\ ~IntervalRunning(at[t])
  /\ pc' = [pc EXCEPT ![t] = "interval_init"]
  /\ UNCHANGED <<clock, config, gate, at, locals, seq, hist, lastCasAt, sink>>

\* Line 170: elapsed_ns.saturating_sub(last_ns) >= *INTERVAL_NS.  The thread
\* comes here out of the closure (whose value is the interval of the rate),
\* or finds the LazyLock forced; while another thread is in the closure it
\* waits.  The call ends here when the interval has not passed.
Check(t) ==
  /\ \/ pc[t] = "interval_init"
     \/ pc[t] = "check" /\ INTERVAL_NS[at[t]] # None
  /\ LET s  == at[t]
         iv == force(INTERVAL_NS[s], IntervalOf(rate[s]))
     IN  /\ INTERVAL_NS' = [INTERVAL_NS EXCEPT ![s] = iv]
         /\ IF IntervalPassed(elapsed_ns[t], last_ns[t], iv)
              THEN /\ pc' = [pc EXCEPT ![t] = "cas"]
                   /\ UNCHANGED <<locals, seq, hist>>
              ELSE Return(t, elapsed_ns[t], "throttled")
  /\ UNCHANGED <<clock, config, START_TIME, LAST_LOG_NS, at, lastCasAt, sink>>

\* A compare_exchange that fails although the value is the expected one, as
\* compare_exchange_weak may.
spurious_failure(cur, expected) == FALSE

\* A plain store in the place of the compare_exchange: it always succeeds.
StoreSucceeds(cur, expected) == TRUE

\* AtomicU64::compare_exchange(current, new).is_ok()
CasSucceeds(cur, expected) == cur = expected

\* A compare_exchange in a loop, as in the retry variant of the benchmarks:
\* after a failure the thread reloads LAST_LOG_NS and reads the clock again.
cas_retry(t) ==
  /\ pc[t] = "cas"
  /\ LET s == at[t]
     IN  IF CasSucceeds(LAST_LOG_NS[s], last_ns[t])
           THEN /\ LAST_LOG_NS' = [LAST_LOG_NS EXCEPT ![s] = elapsed_ns[t]]
                /\ hist' = [hist EXCEPT ![seq[t]] =
                              [@ EXCEPT !.last_ns = last_ns[t], !.now = now[t],
                                        !.elapsed_ns = elapsed_ns[t],
                                        !.won = TRUE]]
                /\ lastCasAt' = [lastCasAt EXCEPT ![s] = clock]
                /\ pc' = [pc EXCEPT ![t] = "log"]
                /\ UNCHANGED <<locals, seq>>
           ELSE /\ last_ns' = [last_ns EXCEPT ![t] = LAST_LOG_NS[s]]
                /\ pc' = [pc EXCEPT ![t] = "now"]
                /\ UNCHANGED <<LAST_LOG_NS, lastCasAt, now, elapsed_ns, seq,
                               hist>>
  /\ UNCHANGED <<clock, config, START_TIME, INTERVAL_NS, at, sink>>

\* A compare_exchange on a static declared once for all call sites instead
\* of inside the macro body: every site's timestamp is the same cell.
cas_shared_static(t) ==
  /\ pc[t] = "cas"
  /\ LET s == at[t]
     IN  IF CasSucceeds(LAST_LOG_NS[s], last_ns[t])
           THEN /\ LAST_LOG_NS' = [o \in AllSites |-> elapsed_ns[t]]
                /\ hist' = [hist EXCEPT ![seq[t]] =
                              [@ EXCEPT !.last_ns = last_ns[t], !.now = now[t],
                                        !.elapsed_ns = elapsed_ns[t],
                                        !.won = TRUE]]
                /\ lastCasAt' = [lastCasAt EXCEPT ![s] = clock]
                /\ pc' = [pc EXCEPT ![t] = "log"]
                /\ UNCHANGED <<locals, seq>>
           ELSE /\ Return(t, elapsed_ns[t], "lost")
                /\ UNCHANGED <<LAST_LOG_NS, lastCasAt>>
  /\ UNCHANGED <<clock, config, START_TIME, INTERVAL_NS, at, sink>>

\* A compare_exchange whose result is ignored: the thread goes on to log!
\* whether it succeeded or not.
CasResultIgnored(t) ==
  /\ pc[t] = "cas"
  /\ LET s == at[t]
     IN  IF CasSucceeds(LAST_LOG_NS[s], last_ns[t])
           THEN /\ LAST_LOG_NS' = [LAST_LOG_NS EXCEPT ![s] = elapsed_ns[t]]
                /\ hist' = [hist EXCEPT ![seq[t]] =
                              [@ EXCEPT !.last_ns = last_ns[t], !.now = now[t],
                                        !.elapsed_ns = elapsed_ns[t],
                                        !.won = TRUE]]
                /\ lastCasAt' = [lastCasAt EXCEPT ![s] = clock]
           ELSE UNCHANGED <<LAST_LOG_NS, hist, lastCasAt>>
  /\ pc' = [pc EXCEPT ![t] = "log"]
  /\ UNCHANGED <<clock, config, START_TIME, INTERVAL_NS, at, locals, seq, sink>>

\* Line 185: compare_exchange(last_ns, elapsed_ns); a failed one ends the call.
Cas(t) ==
  /\ pc[t] = "cas"
  /\ LET s == at[t]
     IN  IF CasSucceeds(LAST_LOG_NS[s], last_ns[t])
           THEN /\ LAST_LOG_NS' = [LAST_LOG_NS EXCEPT ![s] = elapsed_ns[t]]
                /\ hist' = [hist EXCEPT ![seq[t]] =
                              [@ EXCEPT !.last_ns = last_ns[t], !.now = now[t],
                                        !.elapsed_ns = elapsed_ns[t],
                                        !.won = TRUE]]
                /\ lastCasAt' = [lastCasAt EXCEPT ![s] = clock]
                /\ pc' = [pc EXCEPT ![t] = "log"]
                /\ UNCHANGED <<locals, seq>>
           ELSE /\ Return(t, elapsed_ns[t], "lost")
                /\ UNCHANGED <<LAST_LOG_NS, lastCasAt>>
  /\ UNCHANGED <<clock, config, START_TIME, INTERVAL_NS, at, sink>>

\* Line 187: log!(level, ..) hands the message to the logger.
Log(t) ==
  /\ pc[t] = "log"
  /\ sink' = Append(sink, [site |-> at[t], level |-> LevelOf(entry[at[t]])])
  /\ Return(t, elapsed_ns[t], "logged")
  /\ UNCHANGED <<clock, config, gate, at, lastCasAt>>

\* Time passes.
Tick ==
  /\ clock < MaxClock
  /\ clock' = clock + 1
  /\ UNCHANGED <<config, gate, pc, at, locals, seq, hist, lastCasAt, sink>>

Next ==
  \/ \E t \in Threads, s \in AllSites : Load(t, s)
  \/ \E t \in Threads : ReadNow(t)
  \/ \E t \in Threads : EnterStart(t)
  \/ \E t \in Threads : Elapsed(t)
  \/ \E t \in Threads : EnterInterval(t)
  \/ \E t \in Threads : Check(t)
  \/ \E t \in Threads : Cas(t)
  \/ \E t \in Threads : Log(t)
  \/ Tick

Spec == Init /\ [][Next]_vars

\* Any entry point, at 1 GHz (an interval of 1 ns).
InitEntries ==
  /\ InitCommon
  /\ skew = [t \in Threads |-> 0]
  /\ sites = {1}
  /\ rate = [s \in AllSites |-> NS_PER_SEC]
  /\ \E e \in Entries : entry = [s \in AllSites |-> e]

SpecEntries == InitEntries /\ [][Next]_vars

\* Threads whose clock readings disagree: the readings of the thread that
\* arrives first run ahead by up to MaxSkew ns, so that another thread may
\* obtain a reading that is earlier than one obtained before.
InitBackward ==
  /\ InitCommon
  /\ \E k \in 1..MaxSkew :
       skew = [t \in Threads |-> IF t = 1 THEN k ELSE 0]
  /\ sites = {1}
  /\ \E r \in Rates : rate = [s \in AllSites |-> r]
  /\ entry = [s \in AllSites |-> "info_hz"]

SpecBackward == InitBackward /\ [][Next]_vars

\* One call site whose rate is any of the integer rates, negative and zero
\* included; the calls force INTERVAL_NS from it.
InitRates ==
  /\ InitCommon
  /\ skew = [t \in Threads |-> 0]
  /\ sites = {1}
  /\ \E r \in IntegerRates : rate = [s \in AllSites |-> r]
  /\ entry = [s \in AllSites |-> "info_hz"]

SpecRates == InitRates /\ [][Next]_vars

\* Two call sites, that is two expansions of the macro, each with its own
\* statics: error_hz! with an interval of 1 ns and info_hz! with an
\* interval of 2 ns; every thread may run either.
InitSites ==
  /\ InitCommon
  /\ skew = [t \in Threads |-> 0]
  /\ sites = {1, 2}
  /\ rate = [s \in AllSites |-> IF s = 1 THEN NS_PER_SEC ELSE NS_PER_SEC \div 2]
  /\ entry = [s \in AllSites |-> IF s = 1 THEN "error_hz" ELSE "info_hz"]

SpecSites == InitSites /\ [][Next]_vars

(* --------------------------- vocabulary -------------------------------- *)
Interval(s) == IntervalOf(rate[s])

Finished(i) == hist[i].result \in {"throttled", "lost", "logged"}

Quiescent == \A t \in Threads : pc[t] = "idle"

FirstCall(s) == CHOOSE i \in CallsAt(s) : \A j \in CallsAt(s) : i <= j

LastCall(s) == CHOOSE i \in CallsAt(s) : \A j \in CallsAt(s) : j <= i

Emitted(s) == Cardinality({k \in 1..Len(sink) : sink[k].site = s})

\* Thread t's compare_exchange succeeds in this step.
CasWon(t) == pc[t] = "cas" /\ pc'[t] = "log"

\* Thread t is at line 166: before the deref of START_TIME or in its closure.
AtStart(t) == pc[t] \in {"start", "start_init"}

\* Thread t is at line 170: before the deref of INTERVAL_NS or in its closure.
AtCheck(t) == pc[t] \in {"check", "interval_init"}

\* Thread t decides the check of line 170 in this step.
LeavesCheck(t) == AtCheck(t) /\ pc'[t] \notin {"check", "interval_init"}

TypeOK ==
  /\ clock \in 0..MaxClock
  /\ \A s \in AllSites : LAST_LOG_NS[s] \in 0..(MaxClock + MaxSkew)
  /\ \A t \in Threads : pc[t] \in {"idle", "now", "start", "start_init", "check",
                                 "interval_init", "cas", "log"}

(* ------------------------------ claims --------------------------------- *)

\* C1 (as stated): for a positive rate, the first call made at a fresh call
\* site is admitted and emits, whatever elapsed time it computes.
C1_FirstCallAdmitted ==
  \A s \in sites :
    (rate[s] > 0 /\ CallsAt(s) # {} /\ Finished(FirstCall(s)))
      => hist[FirstCall(s)].result = "logged"

\* C2: the elapsed values recorded by two successive successful
\* compare_exchanges on one gate differ by at least INTERVAL_NS: a successful
\* compare_exchange that is not the gate's first raises LAST_LOG_NS, which
\* holds the value the previous one recorded, by at least the interval.
C2_MinGapBetweenAdmissions ==
  [][\A t \in Threads :
       (CasWon(t) /\ AdmittedAt(at[t]) # {})
         => LAST_LOG_NS'[at[t]] - LAST_LOG_NS[at[t]] >= Interval(at[t])]_vars

\* Two admissions at a gate with an interval of at least 1 ns, by two threads.
C2_Witness ==
  \E i \in Admitted : \E j \in Admitted :
    /\ i # j
    /\ hist[i].site = hist[j].site
    /\ Interval(hist[i].site) >= 1
    /\ hist[j].thread # hist[i].thread

\* C3 (as stated): in any window of clock time of length W at most
\* floor(W / I) + 1 compare_exchanges succeed.  That is the same as: the
\* instants of two successive successful compare_exchanges on one gate are at
\* least I apart (n + 1 admissions span at least n * I).
C3_WindowBound ==
  [][\A t \in Threads :
       (CasWon(t) /\ lastCasAt[at[t]] # None /\ rate[at[t]] > 0)
         => clock - lastCasAt[at[t]] >= Interval(at[t])]_vars

\* The calls at site s that loaded LAST_LOG_NS after g admissions, passed the
\* interval check and performed their compare_exchange: they contended for
\* the same window.
Contenders(s, g) ==
  {i \in CallsAt(s) : hist[i].gen = g /\ (hist[i].won \/ hist[i].result = "lost")}

\* C4 (as stated): of two or more calls that contended for the same window,
\* exactly one is admitted.
C4_ExactlyOneWinner ==
  \A s \in sites : \A g \in 0..Len(hist) :
    Cardinality(Contenders(s, g)) >= 2
      => Cardinality(Contenders(s, g) \cap Admitted) = 1

\* C4 (amended): when INTERVAL_NS > 0, of two or more calls that contended for
\* the same window, exactly one is admitted.
C4_ExactlyOneWinnerPositiveInterval ==
  \A s \in sites : \A g \in 0..Len(hist) :
    (Interval(s) >= 1 /\ Cardinality(Contenders(s, g)) >= 2)
      => Cardinality(Contenders(s, g) \cap Admitted) = 1

\* Two threads contended at a gate with a positive interval: both had loaded
\* the same value, both passed the check, one lost its compare_exchange.
C4_Witness ==
  \E s \in sites : \E g \in 0..Len(hist) :
    /\ Interval(s) >= 1
    /\ \E i \in Contenders(s, g) : \E j \in Contenders(s, g) :
         /\ hist[i].thread # hist[j].thread
         /\ hist[i].last_ns = hist[j].last_ns
         /\ hist[i].won /\ hist[j].result = "lost"

\* C5 (as stated): at a call site with a rate <= 0 exactly one call is
\* admitted, the first one.
C5_DegenerateRateAdmitsFirstOnly ==
  \A s \in sites :
    (rate[s] <= 0 /\ CallsAt(s) # {} /\ Finished(FirstCall(s)))
      => AdmittedAt(s) = {FirstCall(s)}

\* C6 (as stated): when every call's clock reading lies less than I after the
\* first call's, exactly one message is emitted.
C6_BurstEmitsOnce ==
  \A s \in sites :
    (/\ rate[s] > 0 /\ Interval(s) >= 1
     /\ Quiescent /\ CallsAt(s) # {}
     /\ \A i \in CallsAt(s) :
          /\ hist[i].now >= hist[FirstCall(s)].now
          /\ hist[i].now - hist[FirstCall(s)].now < Interval(s))
      => Emitted(s) = 1

\* C7 (as stated): a burst of calls within less than I of the first call,
\* followed by one call made at least I after the first call, gives exactly
\* two emissions.  Stated for the calls of one thread, as in the test
\* rate_filtering_works_2.
C7_ReadmissionAfterGap ==
  \A s \in sites :
    (/\ rate[s] > 0 /\ Interval(s) >= 1
     /\ Quiescent /\ Cardinality(CallsAt(s)) >= 3
     /\ \A i \in CallsAt(s) : hist[i].thread = hist[FirstCall(s)].thread
     /\ \A i \in CallsAt(s) \ {LastCall(s)} :
          /\ hist[i].now >= hist[FirstCall(s)].now
          /\ hist[i].now - hist[FirstCall(s)].now < Interval(s)
     /\ hist[LastCall(s)].now - hist[FirstCall(s)].now >= Interval(s))
      => Emitted(s) = 2

\* C8 (as stated): calls made by one thread with clock readings exactly I
\* apart are all admitted, the first included.
C8_ExactSpacingAdmitsAll ==
  \A s \in sites :
    (/\ rate[s] > 0 /\ Interval(s) >= 1
     /\ Quiescent /\ CallsAt(s) # {}
     /\ \A i \in CallsAt(s) : hist[i].thread = hist[FirstCall(s)].thread
     /\ \A i \in CallsAt(s) : \A j \in CallsAt(s) :
          j = i + 1 => hist[j].now = hist[i].now + Interval(s))
      => \A i \in CallsAt(s) : hist[i].result = "logged"

\* The level log! must receive from each entry point.
ExpectedLevel ==
  [error_hz |-> 1, warn_hz |-> 2, info_hz |-> 3, debug_hz |-> 4, trace_hz |-> 5]

\* C9: the messages a call site has handed to the logger, with those of the
\* threads that won their compare_exchange and are about to log, are as many
\* as the successful compare_exchanges; a call that was throttled or lost its
\* compare_exchange hands over nothing; every message carries the level of
\* the entry point.
C9_EmitIffAdmitted ==
  \A s \in sites :
    /\ Emitted(s) + Cardinality({t \in Threads : pc[t] = "log" /\ at[t] = s})
         = Cardinality(AdmittedAt(s))
    /\ Emitted(s) = Cardinality({i \in CallsAt(s) : hist[i].result = "logged"})
    /\ \A i \in CallsAt(s) : hist[i].result = "logged" => hist[i].won
    /\ \A k \in 1..Len(sink) :
         sink[k].site = s => sink[k].level = ExpectedLevel[entry[s]]

\* A call site of trace_hz! where one call was throttled, one lost its
\* compare_exchange and one was logged.
C9_Witness ==
  /\ entry[1] = "trace_hz"
  /\ Emitted(1) = 1
  /\ \E i \in CallsAt(1) : hist[i].result = "throttled"
  /\ \E i \in CallsAt(1) : hist[i].result = "lost"

\* C10 (as stated): no step lowers LAST_LOG_NS, whatever the interval (0
\* included) and whatever the clock readings (backward ones included).
C10_LastLogNeverDecreases ==
  [][\A s \in AllSites : LAST_LOG_NS'[s] >= LAST_LOG_NS[s]]_vars

\* C10 (amended): for any INTERVAL_NS > 0, no step lowers LAST_LOG_NS,
\* whatever the clock readings (backward ones included).
C10_LastLogNeverDecreasesPositiveInterval ==
  [][\A s \in AllSites :
       Interval(s) >= 1 => LAST_LOG_NS'[s] >= LAST_LOG_NS[s]]_vars

\* At a gate with a positive interval and an admission behind it, a call got
\* a clock reading behind the admission it loaded, and ended.
C10_Witness ==
  \E i \in 1..Len(hist) :
    /\ Interval(hist[i].site) >= 1
    /\ Finished(i)
    /\ hist[i].last_ns > 0
    /\ hist[i].elapsed_ns < hist[i].last_ns

\* The gate of site s is armed: both LazyLocks have been forced.
Armed(s) == START_TIME[s] # None /\ INTERVAL_NS[s] # None

\* The calls at site s that have gone past line 170.
PastCheck(s) == {i \in CallsAt(s) : Finished(i) \/ hist[i].won \/
                   \E t \in Threads : seq[t] = i /\ pc[t] \in {"cas", "log"}}

\* The calls at site s that have gone past line 166.
PastStart(s) == PastCheck(s) \cup
                {i \in CallsAt(s) : \E t \in Threads : seq[t] = i /\ AtCheck(t)}

\* C11: START_TIME is set by the first call that reaches line 166 and
\* INTERVAL_NS by the first that reaches line 170, each closure being run by
\* one thread only, so the gate is armed before any call goes past line 170;
\* START_TIME and INTERVAL_NS never change once set; every call computes its
\* elapsed time from the same START_TIME; no thread is at the
\* compare_exchange, and LAST_LOG_NS is not written, while the gate is not
\* armed.
C11_InitializedOnce ==
  /\ [](\A s \in AllSites :
          /\ (START_TIME[s] # None) = (PastStart(s) # {})
          /\ (INTERVAL_NS[s] # None) = (PastCheck(s) # {})
          /\ INTERVAL_NS[s] # None => START_TIME[s] # None
          /\ Cardinality({t \in Threads : pc[t] = "start_init" /\ at[t] = s})
               <= 1
          /\ Cardinality({t \in Threads : pc[t] = "interval_init" /\ at[t] = s})
               <= 1
          /\ StartRunning(s) => START_TIME[s] = None
          /\ IntervalRunning(s) => INTERVAL_NS[s] = None
          /\ ~Armed(s) => LAST_LOG_NS[s] = 0
          /\ INTERVAL_NS[s] # None => INTERVAL_NS[s] = Interval(s)
          /\ \A t \in Threads :
               (at[t] = s /\ pc[t] \in {"check", "interval_init", "cas", "log"})
                 => elapsed_ns[t] = saturating_sub(now[t], START_TIME[s])
          /\ \A i \in CallsAt(s) :
               (Finished(i) \/ hist[i].won)
                 => hist[i].elapsed_ns
                      = saturating_sub(hist[i].now, START_TIME[s]))
  /\ [][\A s \in AllSites :
          /\ START_TIME[s] # None => START_TIME'[s] = START_TIME[s]
          /\ INTERVAL_NS[s] # None => INTERVAL_NS'[s] = INTERVAL_NS[s]
          /\ LAST_LOG_NS'[s] # LAST_LOG_NS[s] => Armed(s)]_vars

\* Two threads reached a fresh call site together (both read the clock
\* before the gate was armed), the gate was armed once, and time went on.
C11_Witness ==
  /\ Armed(1)
  /\ clock > START_TIME[1]
  /\ \E i \in CallsAt(1) : \E j \in CallsAt(1) :
       /\ hist[i].thread # hist[j].thread
       /\ Finished(i) /\ Finished(j)
       /\ hist[i].now <= START_TIME[1] /\ hist[j].now < START_TIME[1]

\* C12: a clock reading earlier than START_TIME gives elapsed_ns = 0 and an
\* elapsed_ns below the loaded LAST_LOG_NS gives a difference of 0 (no
\* underflow, the call ends normally); with an interval of at least 1 ns such
\* a call is not admitted and its return leaves LAST_LOG_NS unchanged.
C12_BackwardClockAbsorbed ==
  /\ [](\A s \in AllSites : \A i \in CallsAt(s) :
          (Finished(i) \/ hist[i].won) =>
            /\ hist[i].elapsed_ns \in 0..(MaxClock + MaxSkew)
            /\ hist[i].now < START_TIME[s] => hist[i].elapsed_ns = 0
            /\ ( /\ Interval(s) >= 1
                 /\ \/ hist[i].now < START_TIME[s]
                    \/ hist[i].elapsed_ns < hist[i].last_ns )
               => ~hist[i].won /\ hist[i].result = "throttled")
  /\ [][\A t \in Threads :
          ( /\ LeavesCheck(t)
            /\ INTERVAL_NS'[at[t]] >= 1
            /\ \/ now[t] < START_TIME[at[t]]
               \/ now[t] - START_TIME[at[t]] < last_ns[t] )
            => pc'[t] = "idle" /\ LAST_LOG_NS' = LAST_LOG_NS]_vars

\* A call whose clock reading lies before START_TIME came back throttled
\* from a gate that has admitted another call.
C12_Witness ==
  \E i \in CallsAt(1) :
    /\ Finished(i)
    /\ Interval(1) >= 1
    /\ hist[i].now < START_TIME[1]
    /\ hist[i].elapsed_ns = 0
    /\ hist[i].result = "throttled"
    /\ LAST_LOG_NS[1] > 0

\* C13 (as stated): the cached interval of a positive rate is 1e9 / rate
\* rounded to the nearest integer, that of a rate <= 0 is u64::MAX.
C13_IntervalRounded ==
  \A s \in sites :
    INTERVAL_NS[s] # None =>
      IF rate[s] > 0
        THEN LET d == NS_PER_SEC - INTERVAL_NS[s] * rate[s]
             IN  2 * d <= rate[s] /\ 2 * d > -rate[s]
        ELSE INTERVAL_NS[s] = U64_MAX

\* C13 (amended): the cached interval of a positive rate is 1e9 / rate
\* truncated toward zero, that of a rate <= 0 is u64::MAX.
C13_IntervalTruncated ==
  \A s \in sites :
    INTERVAL_NS[s] # None =>
      IF rate[s] > 0
        THEN /\ INTERVAL_NS[s] * rate[s] <= NS_PER_SEC
             /\ NS_PER_SEC < (INTERVAL_NS[s] + 1) * rate[s]
        ELSE INTERVAL_NS[s] = U64_MAX

\* The interval of rate 6 has been derived: 166666666 ns, where 1e9 / 6 is
\* 166666666.67.
C13_Witness ==
  /\ rate[1] = 6
  /\ INTERVAL_NS[1] = 166666666
  /\ Quiescent /\ Len(hist) >= 1

\* Thread t returns from a call that was not admitted, on the fast path
\* (line 170 false) or after a failed compare_exchange (line 185).
Rejected(t) == pc[t] \in {"check", "interval_init", "cas"} /\ pc'[t] = "idle"

\* C14 (as stated): the step in which a call is rejected (the check of line
\* 170 with its deref of INTERVAL_NS, or the failed compare_exchange) writes
\* none of LAST_LOG_NS, START_TIME and INTERVAL_NS.
C14_RejectionWritesNothing ==
  [][\A t \in Threads : Rejected(t) => gate' = gate]_vars

\* C14 (amended): LAST_LOG_NS is written only by a successful
\* compare_exchange and the sink only by the log! of an admitted call, so no
\* step of a rejected call writes either; no step changes START_TIME or
\* INTERVAL_NS once they are set (a rejected call may be the one that sets
\* them); a call whose interval check fails returns from the check without
\* going to the compare_exchange.
C14_RejectionLeavesArmedGate ==
  [][/\ LAST_LOG_NS' # LAST_LOG_NS => \E t \in Threads : CasWon(t)
     /\ sink' # sink => \E t \in Threads : pc[t] = "log" /\ pc'[t] = "idle"
     /\ \A s \in AllSites :
          /\ START_TIME[s] # None => START_TIME'[s] = START_TIME[s]
          /\ INTERVAL_NS[s] # None => INTERVAL_NS'[s] = INTERVAL_NS[s]
     /\ \A t \in Threads :
          /\ Rejected(t) => LAST_LOG_NS' = LAST_LOG_NS /\ sink' = sink
          /\ ( /\ LeavesCheck(t)
               /\ saturating_sub(duration_since(now[t], START_TIME[at[t]]),
                                  last_ns[t]) < INTERVAL_NS'[at[t]] )
               => Rejected(t) /\ lastCasAt' = lastCasAt]_vars

\* Both kinds of rejection have happened at a gate that admitted a call: one
\* call failed the interval check, another lost the compare_exchange.
C14_Witness ==
  /\ Quiescent
  /\ Interval(1) >= 1
  /\ LAST_LOG_NS[1] > 0
  /\ \E i \in CallsAt(1) : hist[i].result = "throttled"
  /\ \E j \in CallsAt(1) : hist[j].result = "lost"

\* Thread t's compare_exchange fails in this step.
CasLost(t) == pc[t] = "cas" /\ pc'[t] = "idle"

\* C15: when the compare_exchange of a call fails, another thread's
\* compare_exchange on the same gate has succeeded since the call's load (the
\* gate counts more admissions than at the load, and the value it holds was
\* stored by another thread's admitted call); the losing call returns in that
\* step with its one clock reading, logs nothing and writes nothing.
C15_LoserHasWinner ==
  [][\A t \in Threads :
       CasLost(t) =>
         LET s == at[t]
             i == seq[t]
         IN  /\ Cardinality(AdmittedAt(s)) > hist[i].gen
             /\ LAST_LOG_NS[s] # last_ns[t]
             /\ \E j \in AdmittedAt(s) :
                  /\ hist[j].thread # t
                  /\ hist[j].elapsed_ns = LAST_LOG_NS[s]
             /\ hist'[i].result = "lost" /\ ~hist'[i].won
             /\ hist'[i].now = now[t] /\ hist'[i].last_ns = last_ns[t]
             /\ sink' = sink
             /\ gate' = gate]_vars

\* A call lost its compare_exchange to another thread's call and returned;
\* only the winner's message is in the sink.
C15_Witness ==
  /\ Quiescent
  /\ Emitted(1) = Cardinality(AdmittedAt(1))
  /\ \E j \in CallsAt(1) : \E i \in AdmittedAt(1) :
       /\ hist[j].result = "lost"
       /\ hist[i].thread # hist[j].thread
       /\ hist[j].gen < Cardinality(AdmittedAt(1))
       /\ hist[j].last_ns < hist[i].elapsed_ns

\* Thread t leaves the closure of START_TIME in this step: the epoch of its
\* site is established.
Arms(t) == pc[t] = "start_init" /\ pc'[t] # "start_init"

\* C16 (as stated): the call that arms a gate establishes START_TIME before
\* it reads the clock for its elapsed time, so START_TIME is not later than
\* that reading.
C16_EpochBeforeNow ==
  [][\A t \in Threads : Arms(t) => START_TIME'[at[t]] <= now[t]]_vars

\* C17: at a call site whose rate is zero or negative the interval is
\* u64::MAX, no call ever reaches the compare_exchange, none is admitted
\* (the first included), LAST_LOG_NS stays 0 and nothing is logged.
C17_NonPositiveRateNeverLogs ==
  \A s \in sites :
    rate[s] <= 0 =>
      /\ INTERVAL_NS[s] \in {None, U64_MAX}
      /\ AdmittedAt(s) = {}
      /\ LAST_LOG_NS[s] = 0
      /\ Emitted(s) = 0
      /\ \A t \in Threads : at[t] = s => pc[t] \notin {"cas", "log"}
      /\ \A i \in CallsAt(s) : Finished(i) => hist[i].result = "throttled"

\* Calls of two threads at a site with a negative rate have all returned,
\* the last one after the clock had advanced.
C17_Witness ==
  /\ rate[1] < 0
  /\ INTERVAL_NS[1] = U64_MAX
  /\ Quiescent
  /\ Len(hist) = MaxCalls
  /\ \E i \in CallsAt(1) : hist[i].thread = 2
  /\ hist[LastCall(1)].elapsed_ns >= 1

\* The statements of one call, in program order.
Rank(p) ==
  CASE p = "idle"          -> 0
    [] p = "now"           -> 1
    [] p = "start"         -> 2
    [] p = "start_init"    -> 3
    [] p = "check"         -> 4
    [] p = "interval_init" -> 5
    [] p = "cas"           -> 6
    [] p = "log"           -> 7

\* The next statement of thread t's call.
OwnStep(t) ==
  \/ ReadNow(t)
  \/ EnterStart(t)
  \/ Elapsed(t)
  \/ EnterInterval(t)
  \/ Check(t)
  \/ Cas(t)
  \/ Log(t)

\* Thread t waits for another thread to leave the closure of a LazyLock.
WaitsForInit(t) ==
  \/ pc[t] = "start" /\ StartRunning(at[t])
  \/ pc[t] = "check" /\ IntervalRunning(at[t])

\* C18: a thread inside a call at an armed gate can always take its next
\* step, whatever the other threads do (no lock, no wait); the one wait there
\* is happens before the gate is armed, for another thread to leave the
\* closure of a LazyLock.  Every step of a call goes forward in the macro
\* body or returns, and at an armed gate no closure is entered, so a call is
\* over after at most five steps of its own: LAST_LOG_NS is loaded only by
\* the first, the clock is read only by the second, and LAST_LOG_NS is
\* written only by the step at the compare_exchange.
C18_CallIsWaitFree ==
  /\ [](\A t \in Threads :
          pc[t] # "idle" =>
            /\ ENABLED OwnStep(t) \/ WaitsForInit(t)
            /\ Armed(at[t]) => ENABLED OwnStep(t))
  /\ [][\A t \in Threads :
          pc'[t] # pc[t] =>
            /\ pc'[t] = "idle" \/ Rank(pc'[t]) > Rank(pc[t])
            /\ Armed(at'[t]) => pc'[t] \notin {"start_init", "interval_init"}
            /\ last_ns'[t] # last_ns[t] => pc[t] = "idle" \/ pc'[t] = "idle"
            /\ now'[t] # now[t] => pc[t] = "now" \/ pc'[t] = "idle"
            /\ LAST_LOG_NS' # LAST_LOG_NS => pc[t] = "cas"]_vars

\* A thread stands at its compare_exchange while a call that another thread
\* started later has already logged and returned.
C18_Witness ==
  \E t \in Threads :
    /\ pc[t] = "cas"
    /\ \E i \in 1..Len(hist) :
         /\ i > seq[t]
         /\ hist[i].thread # t
         /\ hist[i].result = "logged"

\* C19: a step of a call at one site leaves the statics of every other site
\* and the messages logged for it unchanged; what a call loads, whether it
\* passes the check and whether its compare_exchange succeeds depend on the
\* statics of its own site only; the calls of all threads at one site use
\* that site's one START_TIME and one interval, derived from its own rate.
C19_SitesIndependent ==
  /\ [](\A s \in sites :
          /\ INTERVAL_NS[s] \in {None, IntervalOf(rate[s])}
          /\ Emitted(s) <= Cardinality(AdmittedAt(s))
          /\ \A i \in CallsAt(s) :
               (Finished(i) \/ hist[i].won)
                 => hist[i].elapsed_ns
                      = duration_since(hist[i].now, START_TIME[s]))
  /\ [][\A t \in Threads :
          pc'[t] # pc[t] =>
            LET s == at'[t]
            IN  /\ \A o \in AllSites \ {s} :
                     /\ START_TIME'[o] = START_TIME[o]
                     /\ INTERVAL_NS'[o] = INTERVAL_NS[o]
                     /\ LAST_LOG_NS'[o] = LAST_LOG_NS[o]
                     /\ Emitted(o)' = Emitted(o)
                /\ pc[t] = "idle" => last_ns'[t] = LAST_LOG_NS[s]
                /\ AtStart(t) /\ pc'[t] = "check" =>
                     elapsed_ns'[t] = duration_since(now[t], START_TIME'[s])
                /\ LeavesCheck(t) =>
                     (pc'[t] = "cas")
                       = (saturating_sub(
                            duration_since(now[t], START_TIME[s]),
                            last_ns[t]) >= INTERVAL_NS'[s])
                /\ pc[t] = "cas" =>
                     (pc'[t] = "log") = (LAST_LOG_NS[s] = last_ns[t])]_vars

\* Both sites are armed, at different times and with different intervals;
\* site 1, called by both threads, has admitted and logged a call; the call
\* at site 2, made after that admission, was throttled.
C19_Witness ==
  /\ Quiescent
  /\ Armed(1) /\ Armed(2)
  /\ START_TIME[1] # START_TIME[2]
  /\ INTERVAL_NS[1] # INTERVAL_NS[2]
  /\ Emitted(1) = 1 /\ Emitted(2) = 0
  /\ LAST_LOG_NS[1] > 0 /\ LAST_LOG_NS[2] = 0
  /\ \E i \in CallsAt(1) : \E j \in CallsAt(1) :
       hist[i].thread # hist[j].thread
  /\ \E k \in CallsAt(2) : \A i \in CallsAt(1) : i < k

\* C20: with an interval of at least 1 ns, a successful compare_exchange
\* stores a value above the one it replaces and above every value stored
\* before, and it succeeds only when the gate holds the loaded value and has
\* admitted no call since the load.
C20_NoABA ==
  [][\A t \in Threads :
       (CasWon(t) /\ INTERVAL_NS[at[t]] >= 1) =>
         LET s == at[t]
         IN  /\ LAST_LOG_NS[s] = last_ns[t]
             /\ LAST_LOG_NS'[s] > LAST_LOG_NS[s]
             /\ \A i \in AdmittedAt(s) :
                  hist[i].elapsed_ns < LAST_LOG_NS'[s]
             /\ Cardinality(AdmittedAt(s)) = hist[seq[t]].gen]_vars

\* A call that loaded the timestamp of an earlier admission has itself been
\* admitted, with a larger timestamp, at a gate with a positive interval.
C20_Witness ==
  \E i \in AdmittedAt(1) :
    /\ Interval(1) >= 1
    /\ hist[i].gen = 1
    /\ hist[i].last_ns > 0
    /\ LAST_LOG_NS[1] = hist[i].elapsed_ns
    /\ hist[i].elapsed_ns > hist[i].last_ns

\* The rates of Rates that enable logging and give an interval the clock
\* has to cross: 1 ns and 2 ns, neither above MaxClock.
PositiveRates == {r \in Rates : r > 0 /\ IntervalOf(r) >= 1}

\* One call site with a positive rate and a clock that never goes backward.
InitLive ==
  /\ InitCommon
  /\ skew = [t \in Threads |-> 0]
  /\ sites = {1}
  /\ \E r \in PositiveRates : rate = [s \in AllSites |-> r]
  /\ entry = [s \in AllSites |-> "info_hz"]

\* The process goes on past the calls and the nanoseconds the model counts.
\* When no call is in progress the finished calls are forgotten and time is
\* counted anew: an Instant has no origin, so START_TIME becomes 0, and the
\* gate decides by elapsed_ns - LAST_LOG_NS alone (lines 166-170), so
\* LAST_LOG_NS becomes 0 and the clock keeps what it is ahead of the last
\* admission.  The gate stays armed and the time since the last admission
\* is the same before and after.
Renew ==
  /\ Quiescent
  /\ Armed(1)
  /\ hist # <<>>
  /\ clock' = clock - START_TIME[1] - LAST_LOG_NS[1]
  /\ START_TIME' = [START_TIME EXCEPT ![1] = 0]
  /\ LAST_LOG_NS' = [LAST_LOG_NS EXCEPT ![1] = 0]
  /\ hist' = <<>>
  /\ sink' = <<>>
  /\ lastCasAt' = [s \in AllSites |-> None]
  /\ UNCHANGED <<config, INTERVAL_NS, pc, at, locals, seq>>

NextLive == Next \/ Renew

\* The premises of liveness: the clock keeps advancing, threads keep
\* calling, every call that has started runs to its end (the scheduler does
\* not leave a thread inside the macro body forever), and the process goes on.
SpecLive ==
  /\ InitLive
  /\ [][NextLive]_vars
  /\ WF_vars(Tick)
  /\ WF_vars(\E t \in Threads : Load(t, 1))
  /\ \A t \in Threads : WF_vars(OwnStep(t))
  /\ WF_vars(Renew)

\* A compare_exchange succeeds in this step: a call is admitted.
Admission == \E t \in Threads : CasWon(t)

\* C21: at a gate with a positive rate, when the clock keeps advancing and
\* threads keep calling, an admission comes after every state, again and
\* again: throttling and lost compare_exchanges do not suppress the call
\* site for good.
C21_AdmissionsKeepHappening == []<><<Admission>>_vars

\* The process has gone on past the first calls: the only call since then,
\* made a full interval after the last admission, was admitted and logged.
C21_Witness ==
  /\ Quiescent
  /\ Interval(1) >= 1
  /\ Len(hist) = 1
  /\ hist[1].result = "logged"
  /\ hist[1].elapsed_ns - hist[1].last_ns = Interval(1)
  /\ LAST_LOG_NS[1] = hist[1].elapsed_ns
====
